---------------------------- MODULE Spec2Model ----------------------------
(***************************************************************************)
(* A model of tools/generate_instance_type_catalog.py: the value           *)
(* normaliser json_safe and the fetch / assemble / persist pipeline of     *)
(* main.                                                                   *)
(*                                                                         *)
(* Python values are tagged records:                                       *)
(*   str       [t |-> "str", s |-> <<code points>>]                        *)
(*   None      [t |-> "none"]                                              *)
(*   int       [t |-> "int", neg, mag]   mag: decimal digits, no leading 0 *)
(*   float     [t |-> "float", sign, digits, exp]  the double nearest to   *)
(*             the decimal it was converted from (rounding not modelled)   *)
(*   Decimal   [t |-> "decimal", sign, digits, exp]  as Decimal.as_tuple() *)
(*   datetime  [t |-> "datetime", y, mo, d, h, mi, s, off]  off: the       *)
(*             utcoffset in hours of a timezone-aware value                *)
(*   date      [t |-> "date", y, mo, d]                                    *)
(*   list      [t |-> "list", elems |-> <<values>>]                        *)
(*   dict      [t |-> "dict", items |-> <<[k, v]>>]  in insertion order    *)
(* Text is a sequence of code points, so that sorted() orders it as        *)
(* Python orders str.                                                      *)
(***************************************************************************)
EXTENDS Integers, Sequences, FiniteSets

VARIABLES
    allow_empty,            \* args.allow_empty
    region,                 \* args.region
    pc,                     \* the statement of main about to run
    pages_done,             \* pages the paginator has yielded so far
    page,                   \* the records of the current page not yet iterated
    fetched,                \* the raw records the inner loop has processed, in order
    instance_types,         \* the catalog dict, items in insertion order
    exc,                    \* the BotoCoreError / ClientError caught, if any
    sorted_instance_types,  \* the dict built at lines 96-99, Unset before
    payload,                \* the document built at lines 101-112, Unset before
    fs_dir,                 \* whether args.output.parent exists
    fs_file,                \* the content of args.output
    writes,                 \* number of write_text calls performed
    stderr,                 \* the lines printed to sys.stderr
    exit_status,            \* <<>> while main runs, then <<its return value>>
    value,                  \* the argument of a stand-alone json_safe call
    result                  \* what that call returned or raised

vars == <<allow_empty, region, pc, pages_done, page, fetched, instance_types,
          exc, sorted_instance_types, payload, fs_dir, fs_file, writes,
          stderr, exit_status, value, result>>

main_vars == <<allow_empty, region, pc, pages_done, page, fetched,
               instance_types, exc, sorted_instance_types, payload, fs_dir,
               fs_file, writes, stderr, exit_status>>

json_vars == <<value, result>>

(***************************************************************************)
(* Bounds of the model.                                                    *)
(***************************************************************************)
\* records the provider yields in one run, over all pages
MaxRecords == 3
\* pages the provider yields in one run
MaxPages == 2
\* digits of a Decimal coefficient given to a stand-alone json_safe call
MaxDigits == 2

(***************************************************************************)
(* Python values.                                                          *)
(***************************************************************************)
Str(s) == [t |-> "str", s |-> s]
NoneV == [t |-> "none"]
IntV(neg, mag) == [t |-> "int", neg |-> neg, mag |-> mag]
FloatV(sign, digits, exp) ==
    [t |-> "float", sign |-> sign, digits |-> digits, exp |-> exp]
Dec(sign, digits, exp) ==
    [t |-> "decimal", sign |-> sign, digits |-> digits, exp |-> exp]
DateTime(y, mo, d, h, mi, s, off) ==
    [t |-> "datetime", y |-> y, mo |-> mo, d |-> d, h |-> h, mi |-> mi,
     s |-> s, off |-> off]
Date(y, mo, d) == [t |-> "date", y |-> y, mo |-> mo, d |-> d]
List(elems) == [t |-> "list", elems |-> elems]
Dict(items) == [t |-> "dict", items |-> items]
\* an exception propagating out of a call
Raise(name) == [t |-> "raise", exc |-> name]

IsRaise(v) == v.t = "raise"

(***************************************************************************)
(* Text helpers.                                                           *)
(***************************************************************************)
Digits2(n) == <<48 + (n \div 10), 48 + (n % 10)>>
Digits4(n) == Digits2(n \div 100) \o Digits2(n % 100)

RECURSIVE Replace(_, _, _)
\* str.replace(old, new)
Replace(s, old, new) ==
    IF Len(s) < Len(old) THEN s
    ELSE IF SubSeq(s, 1, Len(old)) = old
         THEN new \o Replace(SubSeq(s, Len(old) + 1, Len(s)), old, new)
         ELSE <<Head(s)>> \o Replace(Tail(s), old, new)

\* date.isoformat(): YYYY-MM-DD
DateIso(v) == Digits4(v.y) \o <<45>> \o Digits2(v.mo) \o <<45>> \o Digits2(v.d)

\* datetime.astimezone(UTC), for values whose UTC day stays in the same month
AsTimezoneUTC(v) ==
    LET h == v.h - v.off
    IN  IF h < 0 THEN [v EXCEPT !.h = h + 24, !.d = v.d - 1, !.off = 0]
        ELSE IF h > 23 THEN [v EXCEPT !.h = h - 24, !.d = v.d + 1, !.off = 0]
        ELSE [v EXCEPT !.h = h, !.off = 0]

\* datetime.isoformat() of a UTC value without microseconds:
\* YYYY-MM-DDTHH:MM:SS+00:00
DateTimeIso(v) ==
    DateIso(v) \o <<84>> \o Digits2(v.h) \o <<58>> \o Digits2(v.mi) \o <<58>>
    \o Digits2(v.s) \o <<43, 48, 48, 58, 48, 48>>

\* value.astimezone(UTC).isoformat().replace("+00:00", "Z")
UtcStamp(v) ==
    Replace(DateTimeIso(AsTimezoneUTC(v)), <<43, 48, 48, 58, 48, 48>>, <<90>>)

(***************************************************************************)
(* Decimal arithmetic, as the decimal module performs it under the default *)
(* context.                                                                *)
(***************************************************************************)
\* decimal.getcontext().prec of the default context
DefaultPrec == 28

AllZero(digits) == \A i \in DOMAIN digits : digits[i] = 0

Zeros(n) == [i \in 1..n |-> 0]

RECURSIVE StripLeading(_)
StripLeading(digits) ==
    IF digits = <<>> THEN <<>>
    ELSE IF Head(digits) = 0 THEN StripLeading(Tail(digits))
    ELSE digits

\* Decimal.adjusted(): the exponent of the most significant digit
Adjusted(d) == Len(d.digits) + d.exp - 1

\* the digits of d before the decimal point
IntDigits(d) ==
    IF d.exp >= 0 THEN d.digits \o Zeros(d.exp)
    ELSE IF Len(d.digits) + d.exp > 0
         THEN SubSeq(d.digits, 1, Len(d.digits) + d.exp)
         ELSE <<>>

\* the digits of d after the decimal point (leading fractional zeros left out)
FracDigits(d) ==
    IF d.exp >= 0 THEN <<>>
    ELSE IF Len(d.digits) + d.exp > 0
         THEN SubSeq(d.digits, Len(d.digits) + d.exp + 1, Len(d.digits))
         ELSE d.digits

\* value % 1 raises decimal.InvalidOperation (DivisionImpossible) when the
\* integer quotient does not fit the context precision
Mod1Raises(d) == ~AllZero(d.digits) /\ Adjusted(d) >= DefaultPrec

\* value % 1 == 0, when value % 1 does not raise
Mod1IsZero(d) == AllZero(FracDigits(d))

\* int(value): truncation towards zero
DecToInt(d) ==
    LET mag == StripLeading(IntDigits(d))
    IN  IntV(d.sign = 1 /\ mag # <<>>, mag)

\* float(value)
DecToFloat(d) == FloatV(d.sign, d.digits, d.exp)

(***************************************************************************)
(* json_safe                                                               *)
(***************************************************************************)
RECURSIVE json_safe(_)
json_safe(v) ==
    CASE v.t = "dict" ->
            LET out == [i \in DOMAIN v.items |->
                            [k |-> v.items[i].k, v |-> json_safe(v.items[i].v)]]
                bad == {i \in DOMAIN out : IsRaise(out[i].v)}
            IN  IF bad # {}
                THEN out[CHOOSE i \in bad : \A j \in bad : i <= j].v
                ELSE Dict(out)
      [] v.t = "list" ->
            LET out == [i \in DOMAIN v.elems |-> json_safe(v.elems[i])]
                bad == {i \in DOMAIN out : IsRaise(out[i])}
            IN  IF bad # {}
                THEN out[CHOOSE i \in bad : \A j \in bad : i <= j]
                ELSE List(out)
      [] v.t = "datetime" -> Str(UtcStamp(v))
      [] v.t = "date" -> Str(DateIso(v))
      [] v.t = "decimal" ->
            IF Mod1Raises(v) THEN Raise("InvalidOperation")
            ELSE IF Mod1IsZero(v) THEN DecToInt(v)
            ELSE DecToFloat(v)
      [] OTHER -> v

(***************************************************************************)
(* Inputs of a stand-alone json_safe call.                                 *)
(***************************************************************************)
\* digits used in the coefficients
CoeffDigits == {0, 1, 5}

\* coefficients as Decimal stores them: no leading zero, except 0 itself
Coefficients ==
    UNION {{c \in [1..n -> CoeffDigits] : n = 1 \/ c[1] # 0} : n \in 1..MaxDigits}

\* exponents: fractional, integral, and at the edge of the context precision
Exponents == {-2, -1, 0, 1, DefaultPrec - 2, DefaultPrec - 1, DefaultPrec}

Decimals == {Dec(sg, c, e) : sg \in {0, 1}, c \in Coefficients, e \in Exponents}

OtherValues ==
    { Str(<<109, 53>>), Str(<<>>), NoneV, IntV(FALSE, <<7>>),
      DateTime(2024, 1, 15, 9, 30, 0, 2), DateTime(2024, 1, 15, 23, 0, 0, -5),
      Date(2024, 1, 15),
      List(<<Dec(0, <<1, 5>>, -1), Dec(0, <<1, 5>>, 0)>>),
      Dict(<<[k |-> "SizeInMiB", v |-> Dec(0, <<1, 5>>, DefaultPrec)]>>) }

JsonInputs == Decimals \cup OtherValues

NotCalled == [t |-> "not_called"]


(***************************************************************************)
(* dict and sorted()                                                       *)
(***************************************************************************)
Keys(items) == [i \in DOMAIN items |-> items[i].k]

HasKey(items, key) == \E i \in DOMAIN items : items[i].k = key

\* d.get(key, default)
DictGet(items, key, default) ==
    IF HasKey(items, key)
    THEN items[CHOOSE i \in DOMAIN items : items[i].k = key].v
    ELSE default

\* DictSet with the first value of a key kept (setdefault instead of assignment)
DictSet_KeepFirst(items, key, val) ==
    IF HasKey(items, key) THEN items
    ELSE Append(items, [k |-> key, v |-> val])

\* d[key] = val: an existing key keeps its place, a new key goes last
DictSet(items, key, val) ==
    IF HasKey(items, key)
    THEN [i \in DOMAIN items |->
            IF items[i].k = key THEN [k |-> key, v |-> val] ELSE items[i]]
    ELSE Append(items, [k |-> key, v |-> val])

RECURSIVE LexLess(_, _)
\* a < b for two str, compared code point by code point
LexLess(a, b) ==
    IF a = <<>> THEN b # <<>>
    ELSE IF b = <<>> THEN FALSE
    ELSE IF Head(a) # Head(b) THEN Head(a) < Head(b)
    ELSE LexLess(Tail(a), Tail(b))

\* k put into the ascending sequence keys, after the keys not greater than it
InsertKey(keys, k) ==
    LET n == Cardinality({i \in DOMAIN keys : ~LexLess(k.s, keys[i].s)})
    IN  SubSeq(keys, 1, n) \o <<k>> \o SubSeq(keys, n + 1, Len(keys))

\* SortKeys with the keys left in insertion order
SortKeys_AsGiven(keys) == keys

RECURSIVE SortKeys(_)
\* sorted(keys)
SortKeys(keys) ==
    IF keys = <<>> THEN <<>>
    ELSE InsertKey(SortKeys(SubSeq(keys, 1, Len(keys) - 1)), keys[Len(keys)])

\* SortedInstanceTypes with the sorted keys paired with the values in
\* insertion order (zip(sorted(d), d.values()))
SortedInstanceTypes_Zip(types) ==
    LET ks == SortKeys(Keys(types))
    IN  [i \in DOMAIN ks |-> [k |-> ks[i], v |-> types[i].v]]

\* {key: d[key] for key in sorted(d)}
SortedInstanceTypes(types) ==
    LET ks == SortKeys(Keys(types))
    IN  [i \in DOMAIN ks |-> [k |-> ks[i], v |-> DictGet(types, ks[i], NoneV)]]

(***************************************************************************)
(* The provider: pages of raw records.                                     *)
(***************************************************************************)
MemoryInfo(mem) == Dict(<<[k |-> "SizeInMiB", v |-> mem]>>)

RawRecord(id, mem) ==
    Dict(<<[k |-> "InstanceType", v |-> id],
           [k |-> "MemoryInfo", v |-> MemoryInfo(mem)]>>)

RawRecordNoId(mem) == Dict(<<[k |-> "MemoryInfo", v |-> MemoryInfo(mem)]>>)

\* "m", "m5", "t3"
ValidIds == {Str(<<109>>), Str(<<109, 53>>), Str(<<116, 51>>)}

\* Decimal("16.0"), Decimal("16.5"): within the context precision, so that
\* json_safe returns for every record of the provider
Memories == {Dec(0, <<1, 6, 0>>, -1), Dec(0, <<1, 6, 5>>, -1)}

\* identifiers that are not str in the provider's record
NonStrIds == {NoneV, IntV(FALSE, <<7>>), DateTime(2024, 1, 15, 9, 0, 0, 2)}

Records ==
    {RawRecord(id, mem) : id \in ValidIds, mem \in Memories}
    \cup {RawRecord(id, Dec(0, <<1, 6, 0>>, -1)) : id \in NonStrIds \cup {Str(<<>>)}}
    \cup {RawRecordNoId(Dec(0, <<1, 6, 0>>, -1))}

\* the pages the provider may return when n more records fit the bound:
\* with an "InstanceTypes" list, or without the key
Pages(n) ==
    {Dict(<<[k |-> "InstanceTypes", v |-> List(recs)]>>) :
        recs \in UNION {[1..m -> Records] : m \in 0..n}}
    \cup {Dict(<<[k |-> "NextToken", v |-> NoneV]>>)}

ProviderErrors ==
    {[type |-> "BotoCoreError", msg |-> "EndpointConnectionError"],
     [type |-> "ClientError", msg |-> "UnauthorizedOperation"]}

Regions == {"us-east-1"}

\* values of datetime.now(UTC)
Clock == {DateTime(2026, 3, 1, 12, 0, 0, 0), DateTime(2026, 3, 2, 8, 30, 5, 0)}

(***************************************************************************)
(* The decisions of main.                                                  *)
(***************************************************************************)
\* IsValidId without the emptiness test
IsValidId_NoEmptyCheck(instance_type) == instance_type.t = "str"

\* ExceptReturns with the flag ignored: the run always goes on
ExceptReturns_Never(ae) == FALSE

\* ExceptReturns with the flag ignored: the run always ends
ExceptReturns_Always(ae) == TRUE

\* EmptyFails with the emptiness test left out
EmptyFails_NoCheck(types, ae) == FALSE

\* line 82, negated: the record is inserted
IsValidId(instance_type) == instance_type.t = "str" /\ instance_type.s # <<>>

\* line 86
ExceptReturns(ae) == ~ae

\* line 92
EmptyFails(types, ae) == types = <<>> /\ ~ae

\* one pass of the inner loop body, lines 80-84
InsertRecord(types, raw_item) ==
    LET item == json_safe(raw_item)
        instance_type == DictGet(item.items, "InstanceType", NoneV)
    IN  IF ~IsValidId(instance_type) THEN types
        ELSE DictSet(types, instance_type, item)

\* lines 101-112
Payload(now, reg, sorted_types) ==
    [generated_at |-> Replace(DateTimeIso(now), <<43, 48, 48, 58, 48, 48>>, <<90>>),
     query |-> [source_region |-> reg],
     stats |-> [instance_type_count |-> Len(sorted_types), offering_count |-> 0],
     instance_types |-> sorted_types,
     offerings |-> <<>>]

\* json.dumps(payload, indent=2, sort_keys=True) + "\n": the document with its
\* mappings in key order (the catalog's keys are sorted again here; the fixed
\* field names of the document and of a record are not reordered in the model)
JsonDumps(doc) ==
    [t |-> "file",
     doc |-> [doc EXCEPT !.instance_types = SortedInstanceTypes(@)],
     newline |-> TRUE]

\* WriteText that leaves the file as it was
WriteText_Keeps(old, text) == old

\* Path.write_text: the whole file is replaced
WriteText(old, text) == text

Unset == [t |-> "unset"]
NoFile == [t |-> "absent"]
NoExc == [type |-> "none", msg |-> "none"]

FailedToQuery(reg, e) == [msg |-> "failed to query", region |-> reg, cause |-> e]
Continuing == [msg |-> "continuing with an empty catalog because --allow-empty was set"]
NoData == [msg |-> "no instance type data was collected"]
Wrote(n) == [msg |-> "wrote", count |-> n]

(***************************************************************************)
(* main, statement by statement.                                           *)
(***************************************************************************)
MainInit ==
    /\ allow_empty \in BOOLEAN
    /\ region \in Regions
    /\ pc = "get_paginator"
    /\ pages_done = 0
    /\ page = <<>>
    /\ fetched = <<>>
    /\ instance_types = <<>>
    /\ exc = NoExc
    /\ sorted_instance_types = Unset
    /\ payload = Unset
    /\ fs_dir = FALSE
    /\ fs_file = NoFile
    /\ writes = 0
    /\ stderr = <<>>
    /\ exit_status = <<>>

\* line 77: ec2.get_paginator(...) returns
GetPaginator ==
    /\ pc = "get_paginator"
    /\ pc' = "paginate"
    /\ UNCHANGED <<allow_empty, region, pages_done, page, fetched,
                   instance_types, exc, sorted_instance_types, payload,
                   fs_dir, fs_file, writes, stderr, exit_status>>

\* lines 77-78: get_paginator, paginate or the fetch of the next page raises
ProviderRaises ==
    /\ pc \in {"get_paginator", "paginate"}
    /\ \E e \in ProviderErrors : exc' = e
    /\ pc' = "except"
    /\ UNCHANGED <<allow_empty, region, pages_done, page, fetched,
                   instance_types, sorted_instance_types, payload,
                   fs_dir, fs_file, writes, stderr, exit_status>>

\* line 78-79: the paginator yields a page; page.get("InstanceTypes", [])
NextPage ==
    /\ pc = "paginate"
    /\ pages_done < MaxPages
    /\ \E pg \in Pages(MaxRecords - Len(fetched)) :
         LET recs == DictGet(pg.items, "InstanceTypes", List(<<>>)).elems
         IN  /\ page' = recs
             /\ pc' = IF recs = <<>> THEN "paginate" ELSE "items"
    /\ pages_done' = pages_done + 1
    /\ UNCHANGED <<allow_empty, region, fetched, instance_types, exc,
                   sorted_instance_types, payload, fs_dir, fs_file, writes,
                   stderr, exit_status>>

\* lines 79-84: one record of the page
ProcessRecord ==
    /\ pc = "items"
    /\ page # <<>>
    /\ instance_types' = InsertRecord(instance_types, Head(page))
    /\ fetched' = Append(fetched, Head(page))
    /\ page' = Tail(page)
    /\ pc' = IF Tail(page) = <<>> THEN "paginate" ELSE "items"
    /\ UNCHANGED <<allow_empty, region, pages_done, exc,
                   sorted_instance_types, payload, fs_dir, fs_file, writes,
                   stderr, exit_status>>

\* line 78: the paginator is exhausted
EndOfPages ==
    /\ pc = "paginate"
    /\ pc' = "check_empty"
    /\ UNCHANGED <<allow_empty, region, pages_done, page, fetched,
                   instance_types, exc, sorted_instance_types, payload,
                   fs_dir, fs_file, writes, stderr, exit_status>>

\* lines 85-90
Except ==
    /\ pc = "except"
    /\ IF ExceptReturns(allow_empty)
       THEN /\ stderr' = Append(stderr, FailedToQuery(region, exc))
            /\ exit_status' = <<1>>
            /\ pc' = "done"
       ELSE /\ stderr' = stderr \o <<FailedToQuery(region, exc), Continuing>>
            /\ exit_status' = exit_status
            /\ pc' = "check_empty"
    /\ UNCHANGED <<allow_empty, region, pages_done, page, fetched,
                   instance_types, exc, sorted_instance_types, payload,
                   fs_dir, fs_file, writes>>

\* lines 92-94
CheckEmpty ==
    /\ pc = "check_empty"
    /\ IF EmptyFails(instance_types, allow_empty)
       THEN /\ stderr' = Append(stderr, NoData)
            /\ exit_status' = <<1>>
            /\ pc' = "done"
       ELSE /\ stderr' = stderr
            /\ exit_status' = exit_status
            /\ pc' = "assemble"
    /\ UNCHANGED <<allow_empty, region, pages_done, page, fetched,
                   instance_types, exc, sorted_instance_types, payload,
                   fs_dir, fs_file, writes>>

\* lines 96-112
Assemble ==
    /\ pc = "assemble"
    /\ sorted_instance_types' = Dict(SortedInstanceTypes(instance_types))
    /\ \E now \in Clock :
         payload' = Payload(now, region, SortedInstanceTypes(instance_types))
    /\ pc' = "write"
    /\ UNCHANGED <<allow_empty, region, pages_done, page, fetched,
                   instance_types, exc, fs_dir, fs_file, writes, stderr,
                   exit_status>>

\* lines 114-115
Write ==
    /\ pc = "write"
    /\ fs_dir' = TRUE
    /\ fs_file' = WriteText(fs_file, JsonDumps(payload))
    /\ writes' = writes + 1
    /\ pc' = "report"
    /\ UNCHANGED <<allow_empty, region, pages_done, page, fetched,
                   instance_types, exc, sorted_instance_types, payload,
                   stderr, exit_status>>

\* lines 117-122
Report ==
    /\ pc = "report"
    /\ stderr' = Append(stderr, Wrote(Len(sorted_instance_types.items)))
    /\ exit_status' = <<0>>
    /\ pc' = "done"
    /\ UNCHANGED <<allow_empty, region, pages_done, page, fetched,
                   instance_types, exc, sorted_instance_types, payload,
                   fs_dir, fs_file, writes>>

JsonIdle == value = NoneV /\ result = NotCalled

Init == MainInit /\ JsonIdle

Next ==
    \/ GetPaginator /\ UNCHANGED json_vars
    \/ ProviderRaises /\ UNCHANGED json_vars
    \/ NextPage /\ UNCHANGED json_vars
    \/ ProcessRecord /\ UNCHANGED json_vars
    \/ EndOfPages /\ UNCHANGED json_vars
    \/ Except /\ UNCHANGED json_vars
    \/ CheckEmpty /\ UNCHANGED json_vars
    \/ Assemble /\ UNCHANGED json_vars
    \/ Write /\ UNCHANGED json_vars
    \/ Report /\ UNCHANGED json_vars

Spec == Init /\ [][Next]_vars

(***************************************************************************)
(* A stand-alone json_safe call.                                           *)
(***************************************************************************)
MainIdle ==
    /\ allow_empty = FALSE
    /\ region = "us-east-1"
    /\ pc = "done"
    /\ pages_done = 0
    /\ page = <<>>
    /\ fetched = <<>>
    /\ instance_types = <<>>
    /\ exc = NoExc
    /\ sorted_instance_types = Unset
    /\ payload = Unset
    /\ fs_dir = FALSE
    /\ fs_file = NoFile
    /\ writes = 0
    /\ stderr = <<>>
    /\ exit_status = <<>>

JsonInit == MainIdle /\ value \in JsonInputs /\ result = NotCalled

\* json_safe(value) returns
JsonSafeReturns ==
    /\ result = NotCalled
    /\ ~IsRaise(json_safe(value))
    /\ result' = json_safe(value)
    /\ UNCHANGED <<value, main_vars>>

\* json_safe(value) raises
JsonSafeRaises ==
    /\ result = NotCalled
    /\ IsRaise(json_safe(value))
    /\ result' = json_safe(value)
    /\ UNCHANGED <<value, main_vars>>

JsonNext == JsonSafeReturns \/ JsonSafeRaises

JsonSafeSpec == JsonInit /\ [][JsonNext]_vars


(***************************************************************************)
(* Vocabulary of the properties, defined apart from the operators above.   *)
(***************************************************************************)
Entries(items) == {items[i] : i \in DOMAIN items}

UniqueKeys(items) ==
    \A i, j \in DOMAIN items : items[i].k = items[j].k => i = j

NonEmptyStr(v) == v.t = "str" /\ Len(v.s) > 0

\* the InstanceType field of the provider's record, None when it has none
RawId(raw) ==
    IF \E i \in DOMAIN raw.items : raw.items[i].k = "InstanceType"
    THEN (CHOOSE it \in Entries(raw.items) : it.k = "InstanceType").v
    ELSE NoneV

\* the InstanceType field of a normalised record, None when it has none
ItemId(item) ==
    IF \E i \in DOMAIN item.items : item.items[i].k = "InstanceType"
    THEN (CHOOSE it \in Entries(item.items) : it.k = "InstanceType").v
    ELSE NoneV

\* the InstanceType field of the normalised record
NormId(raw) == ItemId(json_safe(raw))

\* what a catalog built from hist holds: for each usable identifier, the
\* normal form of the last record that carries it
ExpectedEntries(hist) ==
    LET norm == {<<i, json_safe(hist[i])>> : i \in DOMAIN hist}
        ids == {<<e[1], ItemId(e[2]), e[2]>> : e \in norm}
        last == {x \in ids :
                    NonEmptyStr(x[2]) /\ \A y \in ids : y[1] > x[1] => y[2] # x[2]}
    IN  {[k |-> e[2], v |-> e[3]] : e \in last}

\* a < b in code point order
CodePointLess(a, b) ==
    \E p \in 1..Len(b) :
        /\ \A q \in 1..(p - 1) : q <= Len(a) /\ a[q] = b[q]
        /\ (p > Len(a) \/ a[p] < b[p])

StrictlyAscending(items) ==
    \A i \in 1..(Len(items) - 1) : CodePointLess(items[i].k.s, items[i + 1].k.s)

Printed(line) == \E i \in DOMAIN stderr : stderr[i] = line

Written == fs_file.t = "file"

AfterLoop == pc \in {"except", "check_empty", "assemble", "write", "report", "done"}

\* this step is one pass of the inner loop
RecordStep == Len(fetched') = Len(fetched) + 1

(***************************************************************************)
(* C1                                                                      *)
(***************************************************************************)
\* C1: once a provider call has raised and allow_empty is false, main goes
\* from the except clause straight to its end: it returns 1, neither the
\* directory nor the file is created, no document is built, and stderr holds
\* exactly "failed to query <region>: <cause>", whatever the catalog held.
C1_ErrorWithoutAllowEmptyFails ==
    (exc # NoExc /\ ~allow_empty) =>
        /\ pc \in {"except", "done"}
        /\ writes = 0 /\ fs_file = NoFile /\ ~fs_dir /\ payload = Unset
        /\ pc = "done" =>
              /\ exit_status = <<1>>
              /\ stderr = <<FailedToQuery(region, exc)>>

C1_Witness ==
    /\ pc = "done" /\ exc # NoExc /\ ~allow_empty
    /\ Len(instance_types) >= 2
    /\ exit_status = <<1>>

(***************************************************************************)
(* C2                                                                      *)
(***************************************************************************)
\* C2: when the pagination ended without a provider error and the catalog is
\* empty, main without allow_empty returns 1 and writes nothing; with
\* allow_empty it returns 0 and the document's instance_types is empty.
C2_EmptyCatalogRule ==
    (pc = "done" /\ exc = NoExc /\ instance_types = <<>>) =>
        IF ~allow_empty
        THEN /\ exit_status = <<1>>
             /\ writes = 0 /\ fs_file = NoFile /\ ~fs_dir
        ELSE /\ exit_status = <<0>>
             /\ Written
             /\ fs_file.doc.instance_types = <<>>
             /\ fs_file.doc.stats.instance_type_count = 0

\* every record of two pages was skipped, and the run failed
C2_Witness ==
    /\ pc = "done" /\ exc = NoExc /\ ~allow_empty
    /\ instance_types = <<>>
    /\ Len(fetched) >= 2 /\ pages_done = 2
    /\ exit_status = <<1>>

(***************************************************************************)
(* C3                                                                      *)
(***************************************************************************)
C3_AtEnd ==
    (pc = "done" /\ exc # NoExc /\ allow_empty) =>
        /\ exit_status = <<0>>
        /\ writes = 1
        /\ Written
        /\ Entries(fs_file.doc.instance_types) = ExpectedEntries(fetched)
        /\ Len(fs_file.doc.instance_types) = Cardinality(ExpectedEntries(fetched))
        /\ Printed(FailedToQuery(region, exc))
        /\ Printed(Continuing)

C3_FetchStops ==
    exc # NoExc =>
        /\ fetched' = fetched
        /\ instance_types' = instance_types
        /\ page' = page
        /\ pages_done' = pages_done

C4_ErrorWithAllowEmptyWritesEmpty ==
    (pc = "done" /\ exc # NoExc /\ allow_empty) =>
        /\ exit_status = <<0>>
        /\ Written
        /\ fs_file.doc.instance_types = <<>>
        /\ fs_file.doc.stats.instance_type_count = 0
        /\ Printed(Continuing)

(***************************************************************************)
(* C5                                                                      *)
(***************************************************************************)
\* the provider's records all carry a non-empty str identifier, no two the same
DistinctStrIds(hist) ==
    /\ \A i \in DOMAIN hist : NonEmptyStr(RawId(hist[i]))
    /\ \A i, j \in DOMAIN hist : RawId(hist[i]) = RawId(hist[j]) => i = j

\* C5: when the pages came without error and their N records carry pairwise
\* distinct non-empty str identifiers, the written document has N entries,
\* its keys are those identifiers in strictly ascending code point order,
\* and stats.instance_type_count is N.
C5_DistinctRecordsSortedAndCounted ==
    (pc = "done" /\ exc = NoExc /\ Written /\ DistinctStrIds(fetched)) =>
        /\ Len(fs_file.doc.instance_types) = Len(fetched)
        /\ {e.k : e \in Entries(fs_file.doc.instance_types)}
             = {RawId(fetched[i]) : i \in DOMAIN fetched}
        /\ StrictlyAscending(fs_file.doc.instance_types)
        /\ fs_file.doc.stats.instance_type_count = Len(fetched)

\* three records over two pages, arriving in descending order
C5_Witness ==
    /\ pc = "done" /\ exc = NoExc /\ Written
    /\ Len(fetched) = 3 /\ pages_done = 2
    /\ DistinctStrIds(fetched)
    /\ CodePointLess(RawId(fetched[3]).s, RawId(fetched[2]).s)
    /\ CodePointLess(RawId(fetched[2]).s, RawId(fetched[1]).s)

(***************************************************************************)
(* C6                                                                      *)
(***************************************************************************)
C6_RawStep ==
    (RecordStep /\ ~NonEmptyStr(RawId(fetched'[Len(fetched')]))) =>
        instance_types' = instance_types

\* C6, as claimed: a record whose InstanceType field, as the provider gave
\* it, is missing, None, "" or not a str leaves the catalog unchanged.
C6_RawMalformedNeverInserted == [][C6_RawStep]_vars

C6_NormStep ==
    (RecordStep /\ ~NonEmptyStr(NormId(fetched'[Len(fetched')]))) =>
        /\ instance_types' = instance_types
        /\ exc' = NoExc
        /\ exit_status' = <<>>
        /\ pc' \in {"items", "paginate"}

C6_Count ==
    (pc = "done" /\ Written) =>
        fs_file.doc.stats.instance_type_count =
            Cardinality({NormId(fetched[i]) :
                           i \in {n \in DOMAIN fetched : NonEmptyStr(NormId(fetched[n]))}})

\* C6, amended: a record whose InstanceType field is missing, None, "" or
\* not a str after json_safe has normalised the record leaves the catalog
\* unchanged and raises nothing, the loop goes on, and the final
\* instance_type_count is the number of distinct usable normalised
\* identifiers.
C6_NormalisedMalformedNeverInserted == []C6_Count /\ [][C6_NormStep]_vars

\* a kept record, then a skipped one, and the run wrote one entry
C6_Witness ==
    /\ pc = "done" /\ Written
    /\ Len(fetched) >= 2
    /\ NonEmptyStr(NormId(fetched[1]))
    /\ ~NonEmptyStr(NormId(fetched[2]))
    /\ fs_file.doc.stats.instance_type_count = 1

(***************************************************************************)
(* C7                                                                      *)
(***************************************************************************)
C7_State ==
    /\ writes <= 1
    /\ Written <=> writes = 1
    /\ pc = "done" =>
          /\ exit_status \in {<<0>>, <<1>>}
          /\ exit_status = <<0>> <=> writes = 1
    /\ pc # "done" => exit_status = <<>>

C7_Step ==
    /\ (writes' # writes \/ fs_file' # fs_file) =>
          /\ pc = "write" /\ page = <<>>
          /\ writes' = writes + 1
          /\ Written'
          /\ Entries(fs_file'.doc.instance_types) = Entries(instance_types)
    /\ pc \in {"write", "report", "done"} =>
          /\ instance_types' = instance_types
          /\ payload' = payload
          /\ Entries(payload.instance_types) = Entries(instance_types)
    /\ AfterLoop => (fetched' = fetched /\ AfterLoop')

\* C7: the document is written at most once; main returns 0 exactly when it
\* was written once and 1 only when nothing was written; the write is a
\* step taken after the fetch loop has ended, and the catalog and the
\* document do not change from assembly on.
C7_WrittenOnceIffSuccess == []C7_State /\ [][C7_Step]_vars

C7_Witness ==
    /\ pc = "done" /\ exit_status = <<0>> /\ writes = 1
    /\ Len(instance_types) >= 2

(***************************************************************************)
(* C9                                                                      *)
(***************************************************************************)
\* C9: at every point of the fetch loop and after it, the catalog holds one
\* entry per usable identifier seen so far, and that entry is the normal
\* form of the last record that carried the identifier; an overwrite
\* therefore changes no other identifier's entry.
C9_LastWriteWins ==
    /\ UniqueKeys(instance_types)
    /\ Entries(instance_types) = ExpectedEntries(fetched)

\* the same identifier came on two pages with different content, next to
\* another identifier
C9_Witness ==
    /\ Len(fetched) = 3 /\ pages_done = 2
    /\ NormId(fetched[1]) = NormId(fetched[3])
    /\ json_safe(fetched[1]) # json_safe(fetched[3])
    /\ NonEmptyStr(NormId(fetched[2]))
    /\ Len(instance_types) = 2

(***************************************************************************)
(* C10                                                                     *)
(***************************************************************************)
KeysMatchRecords(items) ==
    \A i \in DOMAIN items :
        /\ NonEmptyStr(items[i].k)
        /\ \E j \in DOMAIN items[i].v.items :
              items[i].v.items[j] = [k |-> "InstanceType", v |-> items[i].k]

\* C10: in every state every catalog key is a non-empty str equal to the
\* InstanceType field of the record stored under it, and so it is in the
\* sorted catalog, the document and the file, which hold the same
\* key-record pairs as the catalog.
C10_KeyMatchesRecord ==
    /\ KeysMatchRecords(instance_types)
    /\ sorted_instance_types # Unset =>
          /\ KeysMatchRecords(sorted_instance_types.items)
          /\ Entries(sorted_instance_types.items) = Entries(instance_types)
    /\ payload # Unset =>
          /\ KeysMatchRecords(payload.instance_types)
          /\ Entries(payload.instance_types) = Entries(instance_types)
    /\ Written =>
          /\ KeysMatchRecords(fs_file.doc.instance_types)
          /\ Entries(fs_file.doc.instance_types) = Entries(instance_types)

\* the sort moved a record
C10_Witness ==
    /\ pc = "done" /\ Written
    /\ Len(instance_types) >= 2
    /\ Keys(fs_file.doc.instance_types) # Keys(instance_types)

(***************************************************************************)
(* C8                                                                      *)
(***************************************************************************)
\* d has zero fractional part: every digit of weight below 10^0 is 0
ZeroFraction(d) ==
    \A i \in DOMAIN d.digits : Len(d.digits) - i + d.exp < 0 => d.digits[i] = 0

\* the digit of weight 10^w in the coefficient digits scaled by 10^exp
DigitAt(digits, exp, w) ==
    LET i == Len(digits) + exp - w
    IN  IF i \in DOMAIN digits THEN digits[i] ELSE 0

\* the int n and the Decimal d are the same number
SameNumber(n, d) ==
    /\ \A w \in (IF d.exp < 0 THEN d.exp ELSE 0)..(Len(n.mag) + Len(d.digits) + DefaultPrec + 1) :
          DigitAt(n.mag, 0, w) = DigitAt(d.digits, d.exp, w)
    /\ (n.mag # <<>> => (n.neg <=> d.sign = 1))

C8_Law ==
    /\ result.t = "int" <=> ZeroFraction(value)
    /\ result.t = "int" => SameNumber(result, value)
    /\ ~ZeroFraction(value) => result.t = "float"

\* C8: json_safe of a Decimal d returns an int if and only if d has zero
\* fractional part, that int equals d, and for a d with non-zero fractional
\* part it returns a float, for every fixed-point decimal value.
C8_IntegerPreservation ==
    (value.t = "decimal" /\ result # NotCalled) => C8_Law

\* C8 for the values whose integer part fits the context precision, where
\* value % 1 does not raise
C8_WithinPrecision ==
    (value.t = "decimal" /\ result # NotCalled /\ Adjusted(value) < DefaultPrec)
        => C8_Law

=============================================================================
